---- MODULE Spec2Model ----
(***************************************************************************)
(* Model of the fund reconciliation and performance engines                *)
(* (elt/reports/price_reconciler.py, elt/reports/performance_analyzer.py). *)
(*                                                                         *)
(* Tables (pandas DataFrames) are sequences of records, one record per     *)
(* row, fields named after the columns.  Prices are fixed-point integers   *)
(* in thousandths (150000 is 150.000) and rates of return are integers in  *)
(* ten-thousandths (2500 is 0.25), so that rounding is a real operation;   *)
(* market values and realised P/L are integers.  Dates are day numbers.    *)
(***************************************************************************)
EXTENDS Integers, Sequences, FiniteSets, TLC

\* ------------------------------------------------------------------ bounds
MaxHoldings == 2   \* holdings of the varied asset class in the as-of scenarios
MaxQuotes == 2     \* rows of a reference-quote table in the as-of scenarios
MaxDate == 2       \* dates are 1..MaxDate
OrderHoldings == 4 \* rows of the holdings table in the ordering scenarios
MaxRows == 3       \* rows of the holdings table in the aggregation scenarios
MaxDay == 5        \* the analyzer's dates are 1..MaxDay

\* --------------------------------------------------------------- constants
\* constants.AssetType
EQUITY == "Equities"
BONDS == "Government Bond"
\* an asset class that is neither of the two (the one the test fixture uses)
OtherAssetType == "Bonds"

\* constants.SecurityIdentifier
SYMBOL == "SYMBOL"
ISIN == "ISIN"

\* missing values: None in an object column, NaT in a date column, NaN in a
\* float column
None == "None"
NaT == 0
NaN == 0 - 1000000000

Dates == 1..MaxDate

\* the security identifiers of the scenarios, and their order as strings
Keys == {"AAPL", "ISIN123"}
KeyRank(k) == IF k = "AAPL" THEN 1 ELSE IF k = "ISIN123" THEN 2 ELSE 3

\* ------------------------------------------------------- sequence helpers
Range(s) == {s[i] : i \in DOMAIN s}

SeqsUpTo(S, n) == UNION {[1..k -> S] : k \in 0..n}

RECURSIVE Concat(_)
\* pd.concat(list_of_frames, ignore_index=True), for a non-empty list
Concat(frames) ==
    IF frames = <<>> THEN <<>> ELSE Head(frames) \o Concat(Tail(frames))

\* ------------------------------------------------------------------ state
VARIABLES
    fund_positions,   \* PriceReconciler.fund_positions
    equity_prices,    \* PriceReconciler.equity_prices
    bond_prices,      \* PriceReconciler.bond_prices
    reconciler_df,    \* outcome of the last reconcile_prices call
    rec_pc,           \* "new", "loaded" or "reconciled"
    perf_positions,   \* PerformanceAnalyzer.fund_positions
    monthly_agg,      \* calculate_monthly_returns: monthly_agg after step 1
    returns_df,       \* outcome of the last calculate_monthly_returns call
    perf_pc           \* "new", "loaded" or "computed"

VARIABLES
    top_arg,          \* the returns table passed to get_top_performing_funds
    top_funds,        \* outcome of the last get_top_performing_funds call
    top_pc,           \* "new", "ready" (a table is at hand) or "done"
    sort_tie,         \* how this build's quicksort orders equal keys
    perf_columns,     \* the columns of PerformanceAnalyzer.fund_positions
    export_outcome,   \* outcome of the last export_to_excel call
    report_outcome,   \* outcome of the last generate_report call
    rec_recalls,      \* reconcile_prices calls after the first, since the load
    perf_recalls,     \* calculate_monthly_returns calls after the first
    pipe_pc,          \* FundDataPipeline.run: the step to call next, or its end
    calls,            \* the calls run has made, in order
    db,               \* the tables of the DuckDB database
    sql_outcome,      \* outcome of the run_sql_file call
    run_raised        \* the exception that ended run (None when there is none)

rec_vars == <<fund_positions, equity_prices, bond_prices, reconciler_df, rec_pc>>
perf_vars == <<perf_positions, monthly_agg, returns_df, perf_pc>>
top_vars == <<top_arg, top_funds, top_pc, sort_tie>>
report_vars == <<perf_columns, export_outcome, report_outcome>>
call_vars == <<rec_recalls, perf_recalls>>
pipe_vars == <<pipe_pc, calls, db, sql_outcome, run_raised>>
ext_vars == <<top_vars, report_vars, call_vars, pipe_vars>>
vars == <<rec_vars, perf_vars, ext_vars>>

\* ------------------------------------------------ PriceReconciler: helpers
\* a row of the fund_positions table
Holding(type, symbol, isin, dt, price) ==
    [FINANCIAL_TYPE |-> type, SYMBOL |-> symbol, ISIN |-> isin,
     DATETIME |-> dt, PRICE |-> price]

\* a row of equity_prices (keyed by SYMBOL) and of bond_prices (keyed by ISIN)
EquityQuote(symbol, dt, price) ==
    [SYMBOL |-> symbol, DATETIME |-> dt, PRICE |-> price]
BondQuote(isin, dt, price) ==
    [ISIN |-> isin, DATETIME |-> dt, PRICE |-> price]

\* mutant of Round2: the digits after the second decimal are cut off
Round2_Truncate(x) == 10 * (x \div 10)

\* numpy's round(x, 2) on thousandths: to the nearest hundredth, a half to
\* the even hundredth
Round2(x) ==
    LET q == x \div 10
        r == x % 10
    IN  IF r < 5 THEN 10 * q
        ELSE IF r > 5 THEN 10 * (q + 1)
        ELSE IF q % 2 = 0 THEN 10 * q ELSE 10 * (q + 1)

\* mutant of SortsBefore: both columns ascending, the oldest quote first
SortsBefore_OldestFirst(a, b, key_col) ==
    \/ KeyRank(a[key_col]) < KeyRank(b[key_col])
    \/ /\ a[key_col] = b[key_col]
       /\ a.DATETIME < b.DATETIME

\* the ordering of sort_values(by=[key_col, date_col], ascending=[True, False])
SortsBefore(a, b, key_col) ==
    \/ KeyRank(a[key_col]) < KeyRank(b[key_col])
    \/ /\ a[key_col] = b[key_col]
       /\ a.DATETIME > b.DATETIME

RECURSIVE InsertSorted_BeforeTies(_, _, _)
\* mutant of InsertSorted: a row goes before the earlier rows it ties with
InsertSorted_BeforeTies(x, s, key_col) ==
    IF s = <<>> THEN <<x>>
    ELSE IF ~SortsBefore(Head(s), x, key_col) THEN <<x>> \o s
    ELSE <<Head(s)>> \o InsertSorted_BeforeTies(x, Tail(s), key_col)

RECURSIVE InsertSorted(_, _, _)
InsertSorted(x, s, key_col) ==
    IF s = <<>> THEN <<x>>
    ELSE IF SortsBefore(x, Head(s), key_col) THEN <<x>> \o s
    ELSE <<Head(s)>> \o InsertSorted(x, Tail(s), key_col)

RECURSIVE SortValues(_, _)
\* stable: a row goes after the earlier rows it ties with
SortValues(df, key_col) ==
    IF df = <<>> THEN <<>>
    ELSE InsertSorted(df[Len(df)], SortValues(SubSeq(df, 1, Len(df) - 1), key_col),
                      key_col)

\* mutant of DropDuplicates: every row is kept
DropDuplicates_KeepAll(df, key_col) == df

\* drop_duplicates(subset=[key_col]): the first row of each key is kept
DropDuplicates(df, key_col) ==
    LET keep(i) == \A j \in 1..(i - 1) : df[j][key_col] # df[i][key_col]
        F[i \in 0..Len(df)] ==
            IF i = 0 THEN <<>>
            ELSE IF keep(i) THEN Append(F[i - 1], df[i]) ELSE F[i - 1]
    IN  F[Len(df)]

get_latest_price(df, key_col, date_value) ==
    DropDuplicates(
        SortValues(SelectSeq(df, LAMBDA r : r.DATETIME # NaT
                                              /\ r.DATETIME <= date_value),
                   key_col),
        key_col)

\* Series.dropna().unique(): the distinct non-null dates, by first appearance
UniqueDates(fund_df) ==
    LET F[i \in 0..Len(fund_df)] ==
            IF i = 0 THEN <<>>
            ELSE LET d == fund_df[i].DATETIME
                 IN  IF d = NaT \/ d \in Range(F[i - 1]) THEN F[i - 1]
                     ELSE Append(F[i - 1], d)
    IN  F[Len(fund_df)]

\* one row of pd.merge(subset, latest_prices, on=key, how="left",
\* suffixes=("", "_ref")): the holding's columns, then the quote's
MergedRow(h, dt_ref, price_ref) ==
    [FINANCIAL_TYPE |-> h.FINANCIAL_TYPE, SYMBOL |-> h.SYMBOL, ISIN |-> h.ISIN,
     DATETIME |-> h.DATETIME, PRICE |-> h.PRICE,
     DATETIME_ref |-> dt_ref, PRICE_ref |-> price_ref]

RECURSIVE Merge_Inner(_, _, _)
\* mutant of Merge: how="inner", a holding without a quote is dropped
Merge_Inner(subset, latest_prices, key_col) ==
    IF subset = <<>> THEN <<>>
    ELSE LET h == Head(subset)
             matches == SelectSeq(latest_prices,
                                  LAMBDA q : q[key_col] = h[key_col])
         IN  [i \in 1..Len(matches) |->
                MergedRow(h, matches[i].DATETIME, matches[i].PRICE)]
             \o Merge_Inner(Tail(subset), latest_prices, key_col)

RECURSIVE Merge(_, _, _)
Merge(subset, latest_prices, key_col) ==
    IF subset = <<>> THEN <<>>
    ELSE LET h == Head(subset)
             matches == SelectSeq(latest_prices,
                                  LAMBDA q : q[key_col] = h[key_col])
             rows == IF matches = <<>> THEN <<MergedRow(h, NaT, NaN)>>
                     ELSE [i \in 1..Len(matches) |->
                              MergedRow(h, matches[i].DATETIME, matches[i].PRICE)]
         IN  rows \o Merge(Tail(subset), latest_prices, key_col)

PriceDiff(price, price_ref) ==
    IF price = NaN \/ price_ref = NaN THEN NaN ELSE Round2(price - price_ref)

_calculate_price_diff(df) ==
    [i \in 1..Len(df) |->
        [FINANCIAL_TYPE |-> df[i].FINANCIAL_TYPE, SYMBOL |-> df[i].SYMBOL,
         ISIN |-> df[i].ISIN, DATETIME |-> df[i].DATETIME, PRICE |-> df[i].PRICE,
         DATETIME_ref |-> df[i].DATETIME_ref, PRICE_ref |-> df[i].PRICE_ref,
         price_diff |-> PriceDiff(df[i].PRICE, df[i].PRICE_ref)]]

\* the column set of an attribute that is None, not a DataFrame
NotAFrame == {None}

\* the outcome of a call: the exception raised (None when it returned) and
\* the table returned
Returned(df) == [raised |-> None, df |-> df]
Raised(exc) == [raised |-> exc, df |-> <<>>]

_filter_by_asset_type(positions, asset_type) ==
    SelectSeq(positions, LAMBDA h : h.FINANCIAL_TYPE = asset_type)

\* mutant of ReconcileDate: the quotes are filtered once, at the latest
\* holding date, instead of at the date of the loop
ReconcileDate_FilterOnce(fund_df, reference_df, key_col, dt) ==
    LET latest == CHOOSE d \in {fund_df[i].DATETIME : i \in DOMAIN fund_df} :
                    \A i \in DOMAIN fund_df : fund_df[i].DATETIME <= d
    IN  _calculate_price_diff(
            Merge(SelectSeq(fund_df, LAMBDA h : h.DATETIME = dt),
                  get_latest_price(reference_df, key_col, latest),
                  key_col))

\* the frame appended to all_rows for one date of the loop
ReconcileDate(fund_df, reference_df, key_col, dt) ==
    _calculate_price_diff(
        Merge(SelectSeq(fund_df, LAMBDA h : h.DATETIME = dt),
              get_latest_price(reference_df, key_col, dt),
              key_col))

_reconcile_asset_type(fund_df, reference_df, key_col) ==
    LET dts == UniqueDates(fund_df)
        all_rows == [i \in 1..Len(dts) |->
                        ReconcileDate(fund_df, reference_df, key_col, dts[i])]
    IN  IF all_rows = <<>> THEN Raised("ValueError")   \* pd.concat of no frame
        ELSE Returned(Concat(all_rows))

\* mutant of reconcile_prices: the bond report is put first
reconcile_prices_BondsFirst(positions, eq_prices, bd_prices) ==
    LET equity_report ==
            _reconcile_asset_type(_filter_by_asset_type(positions, EQUITY),
                                  eq_prices, SYMBOL)
        bonds_report ==
            _reconcile_asset_type(_filter_by_asset_type(positions, BONDS),
                                  bd_prices, ISIN)
    IN  IF equity_report.raised # None THEN equity_report
        ELSE IF bonds_report.raised # None THEN bonds_report
        ELSE Returned(Concat(<<bonds_report.df, equity_report.df>>))

reconcile_prices(positions, eq_prices, bd_prices) ==
    LET equity_report ==
            _reconcile_asset_type(_filter_by_asset_type(positions, EQUITY),
                                  eq_prices, SYMBOL)
        bonds_report ==
            _reconcile_asset_type(_filter_by_asset_type(positions, BONDS),
                                  bd_prices, ISIN)
    IN  IF equity_report.raised # None THEN equity_report
        ELSE IF bonds_report.raised # None THEN bonds_report
        ELSE Returned(Concat(<<equity_report.df, bonds_report.df>>))

\* mutant of FixBondIsin: only a missing ISIN is filled in
FixBondIsin_FillMissing(positions) ==
    [i \in 1..Len(positions) |->
        IF positions[i].FINANCIAL_TYPE = BONDS /\ positions[i].ISIN = None
        THEN [positions[i] EXCEPT !.ISIN = positions[i].SYMBOL]
        ELSE positions[i]]

\* the fix-up of load_and_prepare_data: a bond holding's ISIN is its SYMBOL
FixBondIsin(positions) ==
    [i \in 1..Len(positions) |->
        IF positions[i].FINANCIAL_TYPE = BONDS
        THEN [positions[i] EXCEPT !.ISIN = positions[i].SYMBOL]
        ELSE positions[i]]


\* ----------------------------------------------- PriceReconciler: actions
\* load_and_prepare_data: the three tables come from the database
LoadAndPrepareData(inputs) ==
    /\ rec_pc = "new"
    /\ \E t \in inputs :
        /\ fund_positions' = FixBondIsin(t[1])
        /\ equity_prices' = t[2]
        /\ bond_prices' = t[3]
    /\ rec_pc' = "loaded"
    /\ UNCHANGED <<reconciler_df, perf_vars, ext_vars>>

\* mutant of ReconcilePrices: the holdings kept by the asset-type and date
\* filters are assigned back to self.fund_positions
ReconcilePrices_FilterInPlace ==
    /\ rec_pc = "loaded"
    /\ reconciler_df' = reconcile_prices(fund_positions, equity_prices, bond_prices)
    /\ fund_positions' =
        SelectSeq(fund_positions,
                  LAMBDA h : h.FINANCIAL_TYPE \in {EQUITY, BONDS} /\ h.DATETIME # NaT)
    /\ rec_pc' = "reconciled"
    /\ UNCHANGED <<equity_prices, bond_prices, perf_vars, ext_vars>>

ReconcilePrices ==
    /\ rec_pc = "loaded"
    /\ reconciler_df' = reconcile_prices(fund_positions, equity_prices, bond_prices)
    /\ rec_pc' = "reconciled"
    /\ UNCHANGED <<fund_positions, equity_prices, bond_prices, perf_vars, ext_vars>>

Init ==
    /\ fund_positions = <<>>
    /\ equity_prices = <<>>
    /\ bond_prices = <<>>
    /\ reconciler_df = Returned(<<>>)
    /\ rec_pc = "new"
    /\ perf_positions = <<>>
    /\ monthly_agg = <<>>
    /\ returns_df = Returned(<<>>)
    /\ perf_pc = "new"
    /\ top_arg = <<>>
    /\ top_funds = Returned(<<>>)
    /\ top_pc = "new"
    /\ sort_tie = None
    /\ perf_columns = NotAFrame
    /\ export_outcome = [raised |-> None, written |-> FALSE, printed |-> None]
    /\ report_outcome = [raised |-> None]
    /\ rec_recalls = 0
    /\ perf_recalls = 0
    /\ pipe_pc = "run_sql_file"
    /\ calls = <<>>
    /\ db = [tables |-> {}, fund_positions |-> <<>>, columns |-> {}]
    /\ sql_outcome = [file |-> None, raised |-> None, executed |-> FALSE,
                      printed |-> None]
    /\ run_raised = None

\* ------------------------------------------- PriceReconciler: the inputs
\* Prices are told apart by the position of the row in its table.
HoldingPrice(i) == 150000 + 1000 * i
QuotePrice(i) == 147000 + 1000 * i

OtherClass(cls) == IF cls = EQUITY THEN BONDS ELSE EQUITY

\* As-of scenarios: the holdings of one asset class and the quotes of that
\* class vary (any key, any date); the other class has one holding and one
\* quote.  In the database a holding's identifier is in SYMBOL and its ISIN
\* is not populated.
AsOfHoldingTables(cls) ==
    {[i \in 1..(Len(s) + 1) |->
        IF i <= Len(s)
        THEN Holding(cls, s[i][1], None, s[i][2], HoldingPrice(i))
        ELSE Holding(OtherClass(cls), "AAPL", None, 1, HoldingPrice(i))] :
     s \in SeqsUpTo(Keys \X Dates, MaxHoldings)}

QuoteTables(key_col) ==
    {[i \in 1..Len(s) |->
        IF key_col = SYMBOL THEN EquityQuote(s[i][1], s[i][2], QuotePrice(i))
        ELSE BondQuote(s[i][1], s[i][2], QuotePrice(i))] :
     s \in SeqsUpTo(Keys \X Dates, MaxQuotes)}

AsOfInputs ==
    (AsOfHoldingTables(EQUITY) \X QuoteTables(SYMBOL)
        \X {<<BondQuote("AAPL", 1, QuotePrice(1))>>})
    \cup
    (AsOfHoldingTables(BONDS) \X {<<EquityQuote("AAPL", 1, QuotePrice(1))>>}
        \X QuoteTables(ISIN))

\* Ordering scenarios: many holdings of any asset class and any date, also a
\* missing one; the quotes are fixed, two of them at the same date.
AssetTypes == {EQUITY, BONDS, OtherAssetType}
OrderDates == {NaT, 1, 2}

OrderHoldingTables ==
    {[i \in 1..Len(s) |-> Holding(s[i][1], "AAPL", None, s[i][2], HoldingPrice(i))] :
     s \in SeqsUpTo(AssetTypes \X OrderDates, OrderHoldings)}

OrderInputs ==
    OrderHoldingTables
        \X {<<EquityQuote("AAPL", 2, QuotePrice(1)),
              EquityQuote("AAPL", 2, QuotePrice(2))>>}
        \X {<<BondQuote("AAPL", 2, QuotePrice(1)),
              BondQuote("AAPL", 2, QuotePrice(2))>>}

\* Price scenarios: one equity and one bond holding, one quote each, the
\* prices drawn from values that round down, round up and tie.
HoldingPrices == {150000, 101000, 101005, 101015, 100994, 148006}
QuotePrices == {148000, 147000, 148010, 100999, 151004, 151015}

DiffInputs ==
    {<<<<Holding(EQUITY, "AAPL", None, 2, p), Holding(BONDS, "ISIN123", None, 2, b)>>,
       <<EquityQuote("AAPL", 1, q)>>,
       <<BondQuote("ISIN123", 1, 147000), BondQuote("ISIN123", 2, 148000)>>>> :
     p \in HoldingPrices, b \in HoldingPrices, q \in QuotePrices}

\* Tie scenarios: one equity and one bond holding; the quotes of each class
\* are an older quote and two quotes of the holding's date with different
\* prices, in any order of the table.
Permutations3(a, b, c) ==
    {<<a, b, c>>, <<a, c, b>>, <<b, a, c>>, <<b, c, a>>, <<c, a, b>>, <<c, b, a>>}

TieInputs ==
    {<<Holding(EQUITY, "AAPL", None, 2, 150000),
       Holding(BONDS, "ISIN123", None, 2, 101000)>>}
        \X Permutations3(EquityQuote("AAPL", 2, 148000),
                         EquityQuote("AAPL", 2, 147000),
                         EquityQuote("AAPL", 1, 149000))
        \X Permutations3(BondQuote("ISIN123", 2, 100000),
                         BondQuote("ISIN123", 2, 102000),
                         BondQuote("ISIN123", 1, 99000))

ReconcilerInputs == AsOfInputs \cup OrderInputs \cup DiffInputs \cup TieInputs

Next == LoadAndPrepareData(ReconcilerInputs) \/ ReconcilePrices
Spec == Init /\ [][Next]_vars

\* ---------------------------------------------- PriceReconciler: claims
\* the report of a reconcile_prices call that returned
Reported == rec_pc = "reconciled" /\ reconciler_df.raised = None
Report == reconciler_df.df

\* the reference table and the matching key of an asset class
QuotesOf(type) == IF type = EQUITY THEN equity_prices ELSE bond_prices
KeyColOf(type) == IF type = EQUITY THEN SYMBOL ELSE ISIN

\* the quotes of h's asset class that share h's key and are dated at or
\* before h (h is a holding or a report row)
Eligible(h) ==
    LET Q == QuotesOf(h.FINANCIAL_TYPE)
        k == KeyColOf(h.FINANCIAL_TYPE)
    IN  {i \in DOMAIN Q : /\ Q[i][k] = h[k]
                          /\ Q[i].DATETIME # NaT
                          /\ Q[i].DATETIME <= h.DATETIME}

\* the holding columns of a report row
HoldingOf(row) ==
    Holding(row.FINANCIAL_TYPE, row.SYMBOL, row.ISIN, row.DATETIME, row.PRICE)

\* a holding that reconcile_prices iterates over
Reconcilable(h) == h.FINANCIAL_TYPE \in {EQUITY, BONDS} /\ h.DATETIME # NaT

\* how many times x occurs in the sequence s
Count(s, x) == Cardinality({i \in DOMAIN s : s[i] = x})

\* C1: every report row carries the price of a quote of its asset class and
\* key whose date is the greatest date at or before the row's date, and a
\* null reference price when there is no such quote.
C1_AsOfCorrect ==
    Reported =>
        \A n \in DOMAIN Report :
            LET row == Report[n]
                Q == QuotesOf(row.FINANCIAL_TYPE)
                E == Eligible(row)
            IN  IF E = {} THEN row.PRICE_ref = NaN
                ELSE \E i \in E :
                        /\ \A j \in E : Q[j].DATETIME <= Q[i].DATETIME
                        /\ row.PRICE_ref = Q[i].PRICE

\* a holding with two quotes of its key at different dates at or before its
\* own is matched with the later one
C1_Witness ==
    /\ Reported
    /\ \E n \in DOMAIN Report :
        LET row == Report[n]
            Q == QuotesOf(row.FINANCIAL_TYPE)
            k == KeyColOf(row.FINANCIAL_TYPE)
        IN  \E i, j \in Eligible(row) :
                /\ Q[i].DATETIME < Q[j].DATETIME
                /\ Q[i].PRICE # Q[j].PRICE
                /\ row.PRICE_ref = Q[j].PRICE

\* C2: a report row's reference price is that of a quote dated at or before
\* the row's holding date, never of a later one.
C2_NoFutureLeakage ==
    Reported =>
        \A n \in DOMAIN Report :
            LET row == Report[n]
                Q == QuotesOf(row.FINANCIAL_TYPE)
                k == KeyColOf(row.FINANCIAL_TYPE)
            IN  row.PRICE_ref # NaN =>
                    /\ row.DATETIME_ref # NaT
                    /\ row.DATETIME_ref <= row.DATETIME
                    /\ \E i \in DOMAIN Q :
                        /\ Q[i][k] = row[k]
                        /\ Q[i].DATETIME = row.DATETIME_ref
                        /\ Q[i].PRICE = row.PRICE_ref

\* two holdings of one key dated d1 < d2 and a quote of that key dated in
\* (d1, d2]: the later holding carries it, the earlier one does not
C2_Witness ==
    /\ Reported
    /\ \E m, n \in DOMAIN Report :
        LET early == Report[m]
            late == Report[n]
            Q == QuotesOf(late.FINANCIAL_TYPE)
            k == KeyColOf(late.FINANCIAL_TYPE)
        IN  /\ early.FINANCIAL_TYPE = late.FINANCIAL_TYPE
            /\ early[k] = late[k]
            /\ early.DATETIME < late.DATETIME
            /\ \E i \in DOMAIN Q :
                /\ Q[i][k] = late[k]
                /\ early.DATETIME < Q[i].DATETIME
                /\ Q[i].DATETIME <= late.DATETIME
                /\ late.PRICE_ref = Q[i].PRICE
                /\ early.PRICE_ref # Q[i].PRICE

\* C3: reconcile_prices raises only when an asset class has no dated holding,
\* never because a holding has no quote; in the report a holding without a
\* quote at or before its date has a null reference price and a null
\* price_diff, and every holding with one has both.
C3_UnmatchedIsNull ==
    rec_pc = "reconciled" =>
        /\ reconciler_df.raised # None <=>
            \E type \in {EQUITY, BONDS} :
                \A i \in DOMAIN fund_positions :
                    ~(/\ fund_positions[i].FINANCIAL_TYPE = type
                      /\ fund_positions[i].DATETIME # NaT)
        /\ reconciler_df.raised = None =>
            \A i \in DOMAIN fund_positions :
                LET h == fund_positions[i]
                IN  Reconcilable(h) =>
                        \E n \in DOMAIN Report :
                            /\ HoldingOf(Report[n]) = h
                            /\ (Eligible(h) = {}) <=> (Report[n].PRICE_ref = NaN)
                            /\ (Eligible(h) = {}) <=> (Report[n].price_diff = NaN)

\* a report with a holding that no quote matches next to one that is matched
C3_Witness ==
    /\ Reported
    /\ \E m, n \in DOMAIN Report :
        /\ Report[m].FINANCIAL_TYPE = Report[n].FINANCIAL_TYPE
        /\ Eligible(Report[m]) = {}
        /\ Report[m].PRICE_ref = NaN
        /\ Report[m].price_diff = NaN
        /\ Eligible(Report[n]) # {}
        /\ Report[n].price_diff # NaN

\* C4: in every report row with a reference price, price_diff is the multiple
\* of 0.01 nearest to PRICE - PRICE_ref (and is PRICE - PRICE_ref itself when
\* that has two decimals); 150 against 148 gives 2.00, 101 against 148 gives
\* -47.00.
C4_DiffCorrect ==
    Reported =>
        \A n \in DOMAIN Report :
            LET row == Report[n]
                exact == row.PRICE - row.PRICE_ref
                d == row.price_diff
            IN  row.PRICE_ref # NaN =>
                    /\ d # NaN
                    /\ d % 10 = 0
                    /\ 2 * (d - exact) <= 10
                    /\ 2 * (exact - d) <= 10
                    /\ (row.PRICE = 150000 /\ row.PRICE_ref = 148000) => d = 2000
                    /\ (row.PRICE = 101000 /\ row.PRICE_ref = 148000) => d = 0 - 47000

\* the report of the two examples, and one whose difference has to be rounded
C4_Witness ==
    /\ Reported
    /\ \E m, n \in DOMAIN Report :
        /\ Report[m].PRICE = 150000
        /\ Report[m].PRICE_ref = 148000
        /\ Report[m].price_diff = 2000
        /\ Report[n].PRICE_ref = 148000
        /\ Report[n].PRICE \in {101000, 101005}
        /\ Report[n].price_diff = 0 - 47000

\* C5 as stated: the report has exactly one row for every holding.
C5_RowPerHolding ==
    Reported =>
        /\ Len(Report) = Len(fund_positions)
        /\ \A h \in Range(fund_positions) :
            Count([n \in DOMAIN Report |-> HoldingOf(Report[n])], h)
                = Count(fund_positions, h)

\* C5 amended: reconcile_prices raises exactly when there is no dated equity
\* holding or no dated bond holding; otherwise the report has exactly one row
\* for every holding that is an equity or a bond and has a date, and no row
\* for any other holding, whatever the quote tables contain.
C5_RowPerReconcilableHolding ==
    rec_pc = "reconciled" =>
        LET kept == SelectSeq(fund_positions, Reconcilable)
            rows == [n \in DOMAIN Report |-> HoldingOf(Report[n])]
        IN  /\ reconciler_df.raised # None =>
                \E type \in {EQUITY, BONDS} :
                    \A i \in DOMAIN kept : kept[i].FINANCIAL_TYPE # type
            /\ reconciler_df.raised = None =>
                /\ Len(rows) = Len(kept)
                /\ \A h \in Range(fund_positions) \cup Range(rows) :
                    Count(rows, h) = Count(kept, h)

\* a report that leaves out a holding of another asset class and a holding
\* without a date, while a reported holding has two quotes at one date
C5_Witness ==
    /\ Reported
    /\ \E i, j \in DOMAIN fund_positions :
        /\ fund_positions[i].FINANCIAL_TYPE = OtherAssetType
        /\ fund_positions[j].FINANCIAL_TYPE = EQUITY
        /\ fund_positions[j].DATETIME = NaT
    /\ Len(Report) = Len(SelectSeq(fund_positions, Reconcilable))
    /\ \E n \in DOMAIN Report :
        \E a, b \in Eligible(Report[n]) :
            /\ a # b
            /\ QuotesOf(Report[n].FINANCIAL_TYPE)[a].DATETIME
                = QuotesOf(Report[n].FINANCIAL_TYPE)[b].DATETIME

\* the position in the holdings table of the holding a report row was made
\* from (the scenarios give every holding its own price)
InputPos(row) == CHOOSE i \in DOMAIN fund_positions : fund_positions[i] = HoldingOf(row)

\* the first position in the holdings table of a holding of the row's asset
\* class and date
FirstOfDate(row) ==
    CHOOSE i \in DOMAIN fund_positions :
        /\ fund_positions[i].FINANCIAL_TYPE = row.FINANCIAL_TYPE
        /\ fund_positions[i].DATETIME = row.DATETIME
        /\ \A j \in 1..(i - 1) :
            ~(/\ fund_positions[j].FINANCIAL_TYPE = row.FINANCIAL_TYPE
              /\ fund_positions[j].DATETIME = row.DATETIME)

EquitiesBeforeBonds ==
    \A m, n \in DOMAIN Report :
        (m < n /\ Report[m].FINANCIAL_TYPE = BONDS) => Report[n].FINANCIAL_TYPE = BONDS

\* C6 as stated: equity rows come before bond rows, and two rows of one asset
\* class are in the order their holdings have in the holdings table.
C6_InputOrderKept ==
    Reported =>
        /\ EquitiesBeforeBonds
        /\ \A m, n \in DOMAIN Report :
            (m < n /\ Report[m].FINANCIAL_TYPE = Report[n].FINANCIAL_TYPE)
                => InputPos(Report[m]) < InputPos(Report[n])

\* C6 amended: equity rows come before bond rows; within an asset class the
\* rows are grouped by holding date, the dates in the order of their first
\* appearance in the holdings table, and the rows of one date are in the order
\* their holdings have in the holdings table.
C6_GroupedByDateInInputOrder ==
    Reported =>
        /\ EquitiesBeforeBonds
        /\ \A m, n \in DOMAIN Report :
            (m < n /\ Report[m].FINANCIAL_TYPE = Report[n].FINANCIAL_TYPE) =>
                IF Report[m].DATETIME = Report[n].DATETIME
                THEN InputPos(Report[m]) < InputPos(Report[n])
                ELSE FirstOfDate(Report[m]) < FirstOfDate(Report[n])

\* bonds precede equities in the holdings table, and the equities' dates are
\* interleaved: the report moves a later holding before an earlier one
C6_Witness ==
    /\ Reported
    /\ fund_positions[1].FINANCIAL_TYPE = BONDS
    /\ \E m, n \in DOMAIN Report :
        /\ m < n
        /\ Report[m].FINANCIAL_TYPE = EQUITY
        /\ Report[n].FINANCIAL_TYPE = EQUITY
        /\ InputPos(Report[m]) > InputPos(Report[n])
    /\ \E m, n \in DOMAIN Report :
        /\ m < n
        /\ Report[m].FINANCIAL_TYPE = EQUITY
        /\ Report[n].FINANCIAL_TYPE = EQUITY
        /\ Report[m].DATETIME = Report[n].DATETIME

\* ------------------------------------------ PerformanceAnalyzer: helpers
\* a date is a day number and a month has DaysPerMonth days
DaysPerMonth == 2

\* dt.to_period("M"): the month a date falls in
MonthOf(dt) == IF dt = NaT THEN NaT ELSE (dt + DaysPerMonth - 1) \div DaysPerMonth

\* a row of the fund_positions table as the database holds it
Position(fund, dt, mv, pl) ==
    [FUND_NAME |-> fund, DATETIME |-> dt, MARKET_VALUE |-> mv, REALISED_PL |-> pl]

parse_datetime_column_and_add_month(df) ==
    [i \in 1..Len(df) |->
        [FUND_NAME |-> df[i].FUND_NAME, DATETIME |-> df[i].DATETIME,
         month |-> MonthOf(df[i].DATETIME),
         MARKET_VALUE |-> df[i].MARKET_VALUE, REALISED_PL |-> df[i].REALISED_PL]]

\* the order of fund names as strings
FundRank(f) == IF f = "FundA" THEN 1 ELSE IF f = "FundB" THEN 2 ELSE 3

\* the order of (FUND NAME, month)
GroupBefore(a, b) ==
    \/ FundRank(a.FUND_NAME) < FundRank(b.FUND_NAME)
    \/ a.FUND_NAME = b.FUND_NAME /\ a.month < b.month

\* the groups of groupby([FUND NAME, month]): a row with a missing fund name
\* or a missing month is in no group
GroupKeys(df) ==
    {[FUND_NAME |-> df[i].FUND_NAME, month |-> df[i].month] :
        i \in {j \in DOMAIN df : df[j].FUND_NAME # None /\ df[j].month # NaT}}

RECURSIVE SortKeys(_)
\* groupby sorts its groups by key
SortKeys(K) ==
    IF K = {} THEN <<>>
    ELSE LET k == CHOOSE x \in K : \A o \in K \ {x} : GroupBefore(x, o)
         IN  <<k>> \o SortKeys(K \ {k})

RECURSIVE SumColumn(_, _)
SumColumn(df, col) ==
    IF df = <<>> THEN 0 ELSE Head(df)[col] + SumColumn(Tail(df), col)

\* mutant of _aggregate_monthly_data: a group takes the rows of its fund in
\* every month
_aggregate_monthly_data_ByFund(positions) ==
    LET keys == SortKeys(GroupKeys(positions))
    IN  [i \in 1..Len(keys) |->
            LET grp == SelectSeq(positions,
                                 LAMBDA r : r.FUND_NAME = keys[i].FUND_NAME)
            IN  [FUND_NAME |-> keys[i].FUND_NAME, month |-> keys[i].month,
                 MV_end |-> SumColumn(grp, "MARKET_VALUE"),
                 realized_pnl |-> SumColumn(grp, "REALISED_PL")]]

_aggregate_monthly_data(positions) ==
    LET keys == SortKeys(GroupKeys(positions))
    IN  [i \in 1..Len(keys) |->
            LET grp == SelectSeq(positions,
                                 LAMBDA r : /\ r.FUND_NAME = keys[i].FUND_NAME
                                            /\ r.month = keys[i].month)
            IN  [FUND_NAME |-> keys[i].FUND_NAME, month |-> keys[i].month,
                 MV_end |-> SumColumn(grp, "MARKET_VALUE"),
                 realized_pnl |-> SumColumn(grp, "REALISED_PL")]]

RECURSIVE InsertByFundMonth(_, _)
InsertByFundMonth(x, s) ==
    IF s = <<>> THEN <<x>>
    ELSE IF GroupBefore(x, Head(s)) THEN <<x>> \o s
    ELSE <<Head(s)>> \o InsertByFundMonth(x, Tail(s))

RECURSIVE SortByFundMonth(_)
\* sort_values(by=[FUND NAME, month])
SortByFundMonth(df) ==
    IF df = <<>> THEN <<>>
    ELSE InsertByFundMonth(df[Len(df)], SortByFundMonth(SubSeq(df, 1, Len(df) - 1)))

\* mutant of ShiftedMvEnd: shift(1) without the groupby, the row before
\* whatever its fund
ShiftedMvEnd_AnyFund(df, i) == IF i = 1 THEN NaN ELSE df[i - 1].MV_end

\* groupby(FUND NAME)["MV_end"].shift(1): the MV_end of the row before in the
\* same fund, NaN for the fund's first row
ShiftedMvEnd(df, i) ==
    LET before == {j \in 1..(i - 1) : df[j].FUND_NAME = df[i].FUND_NAME}
    IN  IF before = {} THEN NaN
        ELSE df[CHOOSE j \in before : \A o \in before : o <= j].MV_end

\* mutant of _calculate_mv_start: the missing MV_start is filled with the
\* row's own MV_end instead of the row being dropped
_calculate_mv_start_KeepFirst(df) ==
    LET sorted == SortByFundMonth(df)
    IN  [i \in 1..Len(sorted) |->
            [FUND_NAME |-> sorted[i].FUND_NAME, month |-> sorted[i].month,
             MV_end |-> sorted[i].MV_end,
             realized_pnl |-> sorted[i].realized_pnl,
             MV_start |-> IF ShiftedMvEnd(sorted, i) = NaN THEN sorted[i].MV_end
                          ELSE ShiftedMvEnd(sorted, i)]]

_calculate_mv_start(df) ==
    LET sorted == SortByFundMonth(df)
        shifted == [i \in 1..Len(sorted) |->
                       [FUND_NAME |-> sorted[i].FUND_NAME, month |-> sorted[i].month,
                        MV_end |-> sorted[i].MV_end,
                        realized_pnl |-> sorted[i].realized_pnl,
                        MV_start |-> ShiftedMvEnd(sorted, i)]]
    IN  SelectSeq(shifted, LAMBDA r : r.MV_start # NaN)   \* dropna

\* the values a float division by zero gives
Inf == 2000000000
NegInf == 0 - 2000000000

\* round(num / den, 4) in ten-thousandths: the nearest, a half to the even one
Round4Div(num, den) ==
    LET n == IF den < 0 THEN 0 - num ELSE num
        d == IF den < 0 THEN 0 - den ELSE den
        q == (10000 * n) \div d
        r == (10000 * n) % d
    IN  IF 2 * r < d THEN q
        ELSE IF 2 * r > d THEN q + 1
        ELSE IF q % 2 = 0 THEN q ELSE q + 1

\* mutant of RateOfReturn: the realised P/L is left out
RateOfReturn_NoPnl(mv_end, mv_start, realized_pnl) ==
    LET num == mv_end - mv_start
    IN  IF mv_start # 0 THEN Round4Div(num, mv_start)
        ELSE IF num > 0 THEN Inf
        ELSE IF num < 0 THEN NegInf
        ELSE NaN

RateOfReturn(mv_end, mv_start, realized_pnl) ==
    LET num == mv_end - mv_start + realized_pnl
    IN  IF mv_start # 0 THEN Round4Div(num, mv_start)
        ELSE IF num > 0 THEN Inf
        ELSE IF num < 0 THEN NegInf
        ELSE NaN

\* mutant of _compute_returns: a row whose MV_start is zero is left out
_compute_returns_ZeroStartDropped(df) ==
    LET kept == SelectSeq(df, LAMBDA r : r.MV_start # 0)
    IN  [i \in 1..Len(kept) |->
            [FUND_NAME |-> kept[i].FUND_NAME, month |-> kept[i].month,
             MV_end |-> kept[i].MV_end, realized_pnl |-> kept[i].realized_pnl,
             MV_start |-> kept[i].MV_start,
             rate_of_return |->
                RateOfReturn(kept[i].MV_end, kept[i].MV_start, kept[i].realized_pnl)]]

_compute_returns(df) ==
    [i \in 1..Len(df) |->
        [FUND_NAME |-> df[i].FUND_NAME, month |-> df[i].month,
         MV_end |-> df[i].MV_end, realized_pnl |-> df[i].realized_pnl,
         MV_start |-> df[i].MV_start,
         rate_of_return |->
            RateOfReturn(df[i].MV_end, df[i].MV_start, df[i].realized_pnl)]]

\* the columns _aggregate_monthly_data reads, and those of a loaded table
RequiredColumns == {"FUND NAME", "month", "MARKET VALUE", "REALISED P/L"}
PositionColumns == RequiredColumns \cup {"DATETIME"}

\* while fund_positions is None (nothing loaded) groupby is an AttributeError,
\* re-raised as RuntimeError; a missing group key or aggregated column is a
\* KeyError, re-raised as KeyError
calculate_monthly_returns(positions, columns) ==
    IF columns = NotAFrame THEN Raised("RuntimeError")
    ELSE IF ~(RequiredColumns \subseteq columns) THEN Raised("KeyError")
    ELSE Returned(_compute_returns(_calculate_mv_start(
                      _aggregate_monthly_data(positions))))

\* ------------------------------------------ PerformanceAnalyzer: actions
\* load_and_prepare_data: the fund_positions table comes from the database
AnalyzerLoadAndPrepareData(inputs) ==
    /\ perf_pc = "new"
    /\ \E t \in inputs :
        perf_positions' = parse_datetime_column_and_add_month(t)
    /\ perf_columns' = PositionColumns
    /\ perf_pc' = "loaded"
    /\ UNCHANGED <<monthly_agg, returns_df, rec_vars, top_vars,
                   export_outcome, report_outcome, call_vars, pipe_vars>>

\* calculate_monthly_returns called when the analyzer is at pc
CalculateMonthlyReturnsAt(pc) ==
    /\ perf_pc = pc
    /\ returns_df' = calculate_monthly_returns(perf_positions, perf_columns)
    /\ monthly_agg' = IF returns_df'.raised = None
                      THEN _aggregate_monthly_data(perf_positions) ELSE <<>>
    /\ perf_pc' = "computed"
    /\ UNCHANGED <<perf_positions, rec_vars, ext_vars>>

CalculateMonthlyReturns == CalculateMonthlyReturnsAt("loaded")

\* ------------------------------------------- PerformanceAnalyzer: inputs
\* Amounts are told apart by the position of the row in the table.
MarketValueAt(i) == 100 + 2 ^ i
RealisedPLAt(i) == 10 + 3 ^ i

\* Aggregation scenarios: rows of any fund (also a missing name) at any date
\* (also a missing one), in any order.
FundNames == {"FundA", "FundB", None}
PositionDates == (1..MaxDay) \cup {NaT}

AggregationInputs ==
    {[i \in 1..Len(s) |->
        Position(s[i][1], s[i][2], MarketValueAt(i), RealisedPLAt(i))] :
     s \in SeqsUpTo(FundNames \X PositionDates, MaxRows)}

\* Return scenarios: one fund in two consecutive months, the amounts drawn
\* from values whose quotient rounds down, rounds up and ties, with a zero and
\* a negative starting value.
StartValues == {100, 3, 7, 0, 0 - 3, 20000, 30000}
EndValues == {110, 100, 0, 20001, 0 - 5}
PnlValues == {15, 0, 0 - 8, 2}

ReturnInputs ==
    {<<Position("FundA", 1, a, 10), Position("FundA", DaysPerMonth + 1, b, c)>> :
     a \in StartValues, b \in EndValues, c \in PnlValues}

\* Zero-start scenarios: FundA's first month sums to zero (a zero holding, or
\* two holdings that cancel), next to FundB whose months are 100 and 110.
ZeroSums == {<<0, 0>>, <<3, 0 - 3>>}

ZeroStartInputs ==
    {<<Position("FundB", 1, 100, 10),
       Position("FundA", 1, z[1], 10), Position("FundA", 2, z[2], 10),
       Position("FundA", DaysPerMonth + 1, b, c),
       Position("FundB", DaysPerMonth + 1, 110, 15)>> :
     z \in ZeroSums, b \in EndValues, c \in PnlValues}

AnalyzerInputs == AggregationInputs \cup ReturnInputs \cup ZeroStartInputs

NextPerf == AnalyzerLoadAndPrepareData(AnalyzerInputs) \/ CalculateMonthlyReturns
SpecPerf == Init /\ [][NextPerf]_vars

\* ------------------------------------------- PerformanceAnalyzer: claims
\* calculate_monthly_returns has returned its table
Computed == perf_pc = "computed" /\ returns_df.raised = None
Returns == returns_df.df

\* the holdings of a fund in a month, and the months a fund is observed in
HoldingsOf(f, m) ==
    {i \in DOMAIN perf_positions :
        perf_positions[i].FUND_NAME = f /\ perf_positions[i].month = m}
MonthsOf(f) ==
    {perf_positions[i].month :
        i \in {j \in DOMAIN perf_positions :
                /\ perf_positions[j].FUND_NAME = f
                /\ perf_positions[j].month # NaT}}
ObservedFunds == {perf_positions[i].FUND_NAME : i \in DOMAIN perf_positions} \ {None}

RECURSIVE Total(_, _)
\* the sum of a column over a set of holdings
Total(I, col) ==
    IF I = {} THEN 0
    ELSE LET i == CHOOSE x \in I : TRUE
         IN  perf_positions[i][col] + Total(I \ {i}, col)

\* the rows of a table for a fund, and for a fund and a month
RowsOf(df, f) == {n \in DOMAIN df : df[n].FUND_NAME = f}
RowsAt(df, f, m) == {n \in DOMAIN df : df[n].FUND_NAME = f /\ df[n].month = m}

\* C7: the monthly aggregate has exactly one row for every (fund, month) pair
\* of the holdings, its MV_end and realized_pnl are the sums of market value
\* and realised P/L over exactly the holdings of that fund and month, and it
\* has no row for any other pair.
C7_AggregationCorrect ==
    perf_pc = "computed" =>
        /\ \A f \in ObservedFunds : \A m \in MonthsOf(f) :
            /\ Cardinality(RowsAt(monthly_agg, f, m)) = 1
            /\ \A n \in RowsAt(monthly_agg, f, m) :
                /\ monthly_agg[n].MV_end = Total(HoldingsOf(f, m), "MARKET_VALUE")
                /\ monthly_agg[n].realized_pnl = Total(HoldingsOf(f, m), "REALISED_PL")
        /\ \A n \in DOMAIN monthly_agg :
            /\ monthly_agg[n].FUND_NAME \in ObservedFunds
            /\ monthly_agg[n].month \in MonthsOf(monthly_agg[n].FUND_NAME)

\* a fund with two holdings in one month and a holding in another month
C7_Witness ==
    /\ perf_pc = "computed"
    /\ \E n \in DOMAIN monthly_agg :
        LET f == monthly_agg[n].FUND_NAME
            m == monthly_agg[n].month
        IN  /\ Cardinality(HoldingsOf(f, m)) = 2
            /\ monthly_agg[n].MV_end = Total(HoldingsOf(f, m), "MARKET_VALUE")
            /\ \E o \in MonthsOf(f) : o # m

\* C8: calculate_monthly_returns raises nothing, and for every fund observed
\* in n >= 1 months it returns n - 1 rows, one for each month of the fund but
\* its first.
C8_FirstPeriodExcluded ==
    perf_pc = "computed" =>
        /\ returns_df.raised = None
        /\ \A f \in ObservedFunds :
            LET M == MonthsOf(f)
            IN  /\ M # {} => Cardinality(RowsOf(Returns, f)) = Cardinality(M) - 1
                /\ M = {} => RowsOf(Returns, f) = {}
                /\ \A m \in M :
                    Cardinality(RowsAt(Returns, f, m))
                        = IF \A o \in M : m <= o THEN 0 ELSE 1
        /\ \A n \in DOMAIN Returns : Returns[n].FUND_NAME \in ObservedFunds

\* a fund observed in three months has two rows, its second and third month
C8_Witness ==
    /\ Computed
    /\ \E f \in ObservedFunds :
        /\ Cardinality(MonthsOf(f)) = 3
        /\ Cardinality(RowsOf(Returns, f)) = 2
        /\ \A n \in RowsOf(Returns, f) :
            \E m \in MonthsOf(f) : m < Returns[n].month

\* C9: in every returned row of fund F and month M, MV_start is the sum of
\* the market values of F's holdings in the latest month of F before M.
C9_LagCorrect ==
    Computed =>
        \A n \in DOMAIN Returns :
            LET f == Returns[n].FUND_NAME
                earlier == {m \in MonthsOf(f) : m < Returns[n].month}
            IN  /\ earlier # {}
                /\ \E p \in earlier :
                    /\ \A o \in earlier : o <= p
                    /\ Returns[n].MV_start = Total(HoldingsOf(f, p), "MARKET_VALUE")

\* the holdings are not in chronological order and another fund's holding
\* lies between the two months of the fund
C9_Witness ==
    /\ Computed
    /\ \E i, j, k \in DOMAIN perf_positions :
        /\ i < j /\ j < k
        /\ perf_positions[i].FUND_NAME = perf_positions[k].FUND_NAME
        /\ perf_positions[j].FUND_NAME \in ObservedFunds
        /\ perf_positions[j].FUND_NAME # perf_positions[i].FUND_NAME
        /\ perf_positions[j].month # NaT
        /\ perf_positions[k].month # NaT
        /\ perf_positions[k].month < perf_positions[i].month
        /\ \E n \in DOMAIN Returns :
            /\ Returns[n].FUND_NAME = perf_positions[i].FUND_NAME
            /\ Returns[n].MV_start = perf_positions[k].MARKET_VALUE

Abs(x) == IF x < 0 THEN 0 - x ELSE x

\* C10: in every returned row with a non-zero MV_start, realized_pnl is the
\* sum of realised P/L over the row's own month and rate_of_return is the
\* multiple of 0.0001 nearest to (MV_end - MV_start + realized_pnl) / MV_start;
\* MV_start 100, MV_end 110 and realized_pnl 15 give 0.25.
C10_ReturnFormula ==
    Computed =>
        \A n \in DOMAIN Returns :
            LET row == Returns[n]
                num == row.MV_end - row.MV_start + row.realized_pnl
            IN  row.MV_start # 0 =>
                    /\ row.realized_pnl
                        = Total(HoldingsOf(row.FUND_NAME, row.month), "REALISED_PL")
                    /\ row.rate_of_return \notin {NaN, Inf, NegInf}
                    /\ 2 * Abs(row.rate_of_return * row.MV_start - 10000 * num)
                        <= Abs(row.MV_start)
                    /\ (row.MV_start = 100 /\ row.MV_end = 110 /\ row.realized_pnl = 15)
                        => row.rate_of_return = 2500

\* the example row
C10_Witness ==
    /\ Computed
    /\ \E n \in DOMAIN Returns :
        /\ Returns[n].MV_start = 100
        /\ Returns[n].MV_end = 110
        /\ Returns[n].realized_pnl = 15
        /\ Returns[n].rate_of_return = 2500

\* C11: calculate_monthly_returns raises nothing when an MV_start is zero; a
\* fund's month whose preceding month sums to zero still has its row, with
\* MV_start zero and a rate_of_return that is +infinity, -infinity or
\* undefined according to the sign of MV_end + realized_pnl; and every row
\* with a non-zero MV_start has the finite rate nearest to the formula.
C11_ZeroStartIsValue ==
    perf_pc = "computed" =>
        /\ returns_df.raised = None
        /\ \A f \in ObservedFunds : \A m \in MonthsOf(f) :
            LET earlier == {o \in MonthsOf(f) : o < m}
                prev == CHOOSE p \in earlier : \A o \in earlier : o <= p
            IN  (earlier # {} /\ Total(HoldingsOf(f, prev), "MARKET_VALUE") = 0) =>
                    /\ Cardinality(RowsAt(Returns, f, m)) = 1
                    /\ \A n \in RowsAt(Returns, f, m) :
                        LET num == Total(HoldingsOf(f, m), "MARKET_VALUE")
                                    + Total(HoldingsOf(f, m), "REALISED_PL")
                        IN  /\ Returns[n].MV_start = 0
                            /\ Returns[n].rate_of_return =
                                 IF num > 0 THEN Inf
                                 ELSE IF num < 0 THEN NegInf ELSE NaN
        /\ \A n \in DOMAIN Returns :
            LET row == Returns[n]
                num == row.MV_end - row.MV_start + row.realized_pnl
            IN  row.MV_start # 0 =>
                    /\ row.rate_of_return \notin {NaN, Inf, NegInf}
                    /\ 2 * Abs(row.rate_of_return * row.MV_start - 10000 * num)
                        <= Abs(row.MV_start)

\* FundA's row has a zero MV_start and a non-finite rate next to FundB's row
\* of the same month, whose rate is 0.25
C11_Witness ==
    /\ Computed
    /\ \E m, n \in DOMAIN Returns :
        /\ Returns[m].month = Returns[n].month
        /\ Returns[m].FUND_NAME = "FundA"
        /\ Returns[m].MV_start = 0
        /\ Returns[m].rate_of_return \in {Inf, NegInf, NaN}
        /\ Returns[n].FUND_NAME = "FundB"
        /\ Returns[n].rate_of_return = 2500

\* ------------------------------------- get_top_performing_funds: helpers
MaxReturnRows == 3  \* rows of a returns table built by a caller

\* a row of a returns table as a caller builds it
ReturnRow(fund, month, rate) ==
    [FUND_NAME |-> fund, month |-> month, rate_of_return |-> rate]

\* sort_values(rate_of_return, ascending=False) uses quicksort, which is not
\* stable: rows with equal rates come out in input order or in the reverse
TieRules == {"input_order", "reverse_order"}

\* a rate comes before another in descending order; NaN goes last
RateBefore(a, b) == a # NaN /\ (b = NaN \/ a > b)

\* equal keys of the argsort; the NaN rows are not part of it, they are put
\* after the sorted rows in input order
RateTied(a, b) == a # NaN /\ b # NaN /\ a = b

RECURSIVE InsertByReturn_AlwaysReversed(_, _, _)
\* mutant of InsertByReturn: rows with equal rates always come out reversed
InsertByReturn_AlwaysReversed(x, s, tie) ==
    IF s = <<>> THEN <<x>>
    ELSE IF \/ RateBefore(x.rate_of_return, Head(s).rate_of_return)
            \/ RateTied(x.rate_of_return, Head(s).rate_of_return)
         THEN <<x>> \o s
         ELSE <<Head(s)>> \o InsertByReturn_AlwaysReversed(x, Tail(s), tie)

RECURSIVE InsertByReturn(_, _, _)
InsertByReturn(x, s, tie) ==
    IF s = <<>> THEN <<x>>
    ELSE IF \/ RateBefore(x.rate_of_return, Head(s).rate_of_return)
            \/ /\ tie = "reverse_order"
               /\ RateTied(x.rate_of_return, Head(s).rate_of_return)
         THEN <<x>> \o s
         ELSE <<Head(s)>> \o InsertByReturn(x, Tail(s), tie)

RECURSIVE SortByReturn(_, _)
SortByReturn(df, tie) ==
    IF df = <<>> THEN <<>>
    ELSE InsertByReturn(df[Len(df)], SortByReturn(SubSeq(df, 1, Len(df) - 1), tie),
                        tie)

\* mutant of HeadPerMonth: the rows that tie with the first one of their month
\* are kept as well
HeadPerMonth_KeepTies(df) ==
    LET first(i) == \A j \in 1..(i - 1) :
                        \/ df[j].month # df[i].month
                        \/ df[j].rate_of_return = df[i].rate_of_return
        F[i \in 0..Len(df)] ==
            IF i = 0 THEN <<>>
            ELSE IF first(i) THEN Append(F[i - 1], df[i]) ELSE F[i - 1]
    IN  F[Len(df)]

\* groupby(month).head(1): the first row of each month, in the frame's order
HeadPerMonth(df) ==
    LET first(i) == \A j \in 1..(i - 1) : df[j].month # df[i].month
        F[i \in 0..Len(df)] ==
            IF i = 0 THEN <<>>
            ELSE IF first(i) THEN Append(F[i - 1], df[i]) ELSE F[i - 1]
    IN  F[Len(df)]

RECURSIVE InsertByMonth(_, _)
InsertByMonth(x, s) ==
    IF s = <<>> THEN <<x>>
    ELSE IF x.month < Head(s).month THEN <<x>> \o s
    ELSE <<Head(s)>> \o InsertByMonth(x, Tail(s))

\* mutant of SortByMonth: the frame is left in the order it has
SortByMonth_Skipped(df) == df

RECURSIVE SortByMonth(_)
\* sort_values(month, ascending=True)
SortByMonth(df) ==
    IF df = <<>> THEN <<>>
    ELSE InsertByMonth(df[Len(df)], SortByMonth(SubSeq(df, 1, Len(df) - 1)))

get_top_performing_funds(returns, tie) ==
    SortByMonth(HeadPerMonth(SortByReturn(returns, tie)))

\* ------------------------------------- get_top_performing_funds: actions
\* a caller builds a returns table (get_top_performing_funds is static)
BuildReturnsTable(inputs) ==
    /\ top_pc = "new"
    /\ \E t \in inputs : top_arg' = t
    /\ top_pc' = "ready"
    /\ UNCHANGED <<top_funds, sort_tie, rec_vars, perf_vars, report_vars, call_vars, pipe_vars>>

GetTopPerformingFunds ==
    /\ top_pc = "ready"
    /\ \E tie \in TieRules :
        /\ sort_tie' = tie
        /\ top_funds' = Returned(get_top_performing_funds(top_arg, tie))
    /\ top_pc' = "done"
    /\ UNCHANGED <<top_arg, rec_vars, perf_vars, report_vars, call_vars, pipe_vars>>

\* the returns tables: rows of any fund, any month and any rate (also an
\* undefined one), in any order
ReturnMonths == {MonthOf(d) : d \in 1..MaxDay}
ReturnRates == {1000, 2500, NaN}

ReturnsTables ==
    {[i \in 1..Len(t) |-> ReturnRow(t[i][1], t[i][2], t[i][3])] :
     t \in SeqsUpTo({"FundA", "FundB"} \X ReturnMonths \X ReturnRates,
                    MaxReturnRows)}

NextTop == BuildReturnsTable(ReturnsTables) \/ GetTopPerformingFunds
SpecTop == Init /\ [][NextTop]_vars

\* -------------------------------------- get_top_performing_funds: claims
\* get_top_performing_funds has returned its table
TopDone == top_pc = "done" /\ top_funds.raised = None
Top == top_funds.df

\* the rows of a table for a month, and the months of a table
MonthRows(df, m) == {n \in DOMAIN df : df[n].month = m}
TableMonths(df) == {df[n].month : n \in DOMAIN df}

\* a >= b on floats: false when either side is NaN
FloatGeq(a, b) == a # NaN /\ b # NaN /\ a >= b

\* C12 as stated: the result has exactly one row for each month of the
\* returns table and none for any other month, and the selected row's
\* rate_of_return is >= that of every other fund's row of the month.
C12_OneRowPerMonthMax ==
    TopDone =>
        /\ TableMonths(Top) = TableMonths(top_arg)
        /\ \A m \in TableMonths(top_arg) :
            /\ Cardinality(MonthRows(Top, m)) = 1
            /\ \A n \in MonthRows(Top, m) : \A k \in MonthRows(top_arg, m) :
                top_arg[k].FUND_NAME # Top[n].FUND_NAME =>
                    FloatGeq(Top[n].rate_of_return, top_arg[k].rate_of_return)

\* C12 amended: the result has exactly one row for each month of the returns
\* table and none for any other month, also when several funds tie; the
\* selected row is a row of that month whose rate_of_return is >= every
\* defined (non-NaN) rate of the month, and it has an undefined rate only
\* when every row of the month has.
C12_OneRowPerMonthMaxDefined ==
    TopDone =>
        /\ TableMonths(Top) = TableMonths(top_arg)
        /\ \A m \in TableMonths(top_arg) :
            /\ Cardinality(MonthRows(Top, m)) = 1
            /\ \A n \in MonthRows(Top, m) :
                /\ \E k \in MonthRows(top_arg, m) : top_arg[k] = Top[n]
                /\ \A k \in MonthRows(top_arg, m) :
                    IF top_arg[k].rate_of_return = NaN THEN TRUE
                    ELSE FloatGeq(Top[n].rate_of_return, top_arg[k].rate_of_return)

\* two funds tie for the highest rate of a month above a third row, and the
\* result has that month once
C12_Witness ==
    /\ TopDone
    /\ \E i, j, k \in DOMAIN top_arg :
        /\ top_arg[i].month = top_arg[j].month
        /\ top_arg[k].month = top_arg[i].month
        /\ top_arg[i].FUND_NAME # top_arg[j].FUND_NAME
        /\ top_arg[i].rate_of_return = 2500
        /\ top_arg[j].rate_of_return = 2500
        /\ top_arg[k].rate_of_return = 1000
        /\ Cardinality(MonthRows(Top, top_arg[i].month)) = 1
        /\ \A n \in MonthRows(Top, top_arg[i].month) : Top[n].rate_of_return = 2500

\* C13: the result of get_top_performing_funds is sorted by month ascending,
\* whatever the order of the rows of the returns table.
C13_SortedByMonth ==
    TopDone =>
        \A m, n \in DOMAIN Top : m < n => Top[m].month < Top[n].month

\* the returns table has a later month before an earlier one, the later
\* month has the higher rate, and the result is in month order
C13_Witness ==
    /\ TopDone
    /\ Len(top_arg) = 2
    /\ top_arg[1].month > top_arg[2].month
    /\ top_arg[1].rate_of_return = 2500
    /\ top_arg[2].rate_of_return = 1000
    /\ Len(Top) = 2
    /\ Top[1] = top_arg[2]
    /\ Top[2] = top_arg[1]

\* ------------------------------- PerformanceAnalyzer.generate_report
\* the columns of the table calculate_monthly_returns returns
ReturnColumns ==
    {"FUND NAME", "month", "MV_end", "realized_pnl", "MV_start", "rate_of_return"}

\* the outcome of export_to_excel: every exception raised inside is caught
\* and printed, so the call returns whether or not the file was written
Exported == [raised |-> None, written |-> TRUE, printed |-> None]
ExportFailed(exc) == [raised |-> None, written |-> FALSE, printed |-> exc]

\* columns is None when the caller asks for every column; io_ok tells whether
\* mkdir and to_excel succeed
export_to_excel(df, df_columns, columns, io_ok) ==
    IF df = <<>> THEN ExportFailed("ValueError")
    ELSE IF columns # NotAFrame /\ ~(columns \subseteq df_columns)
         THEN ExportFailed("KeyError")
    ELSE IF ~io_ok THEN ExportFailed("OSError")
    ELSE Exported

\* the locals and the outcome of generate_report: whatever is raised inside
\* the try block leaves as a RuntimeError
generate_report(positions, columns, tie, io_ok) ==
    LET returns == calculate_monthly_returns(positions, columns)
        top == get_top_performing_funds(returns.df, tie)
    IN  IF returns.raised # None
        THEN [raised |-> "RuntimeError", returns_df |-> returns,
              exported |-> FALSE, top_funds |-> <<>>,
              export |-> ExportFailed(None)]
        ELSE [raised |-> None, returns_df |-> returns,
              exported |-> TRUE, top_funds |-> top,
              export |-> export_to_excel(top, ReturnColumns, NotAFrame, io_ok)]

\* a caller sets analyzer.fund_positions itself, as the tests do
AssignFundPositions(inputs) ==
    /\ perf_pc = "new"
    /\ \E t \in inputs :
        /\ perf_columns' = t[1]
        /\ perf_positions' = t[2]
    /\ perf_pc' = "loaded"
    /\ UNCHANGED <<monthly_agg, returns_df, rec_vars, top_vars,
                   export_outcome, report_outcome, call_vars, pipe_vars>>

GenerateReport ==
    /\ perf_pc \in {"new", "loaded"}
    /\ \E tie \in TieRules, io_ok \in BOOLEAN :
        LET r == generate_report(perf_positions, perf_columns, tie, io_ok)
        IN  /\ returns_df' = r.returns_df
            /\ report_outcome' = [raised |-> r.raised]
            /\ IF r.exported
               THEN /\ top_arg' = r.returns_df.df
                    /\ top_funds' = Returned(r.top_funds)
                    /\ sort_tie' = tie
                    /\ export_outcome' = r.export
               ELSE UNCHANGED <<top_arg, top_funds, sort_tie, export_outcome>>
    /\ perf_pc' = "reported"
    /\ UNCHANGED <<perf_positions, perf_columns, monthly_agg, top_pc, rec_vars,
                   call_vars, pipe_vars>>

\* the frames assigned: no row, funds observed in one month only, funds
\* observed in two months (one with a zero start), under any set of columns;
\* pd.DataFrame() has no column and no row
ReportPositions ==
    {<<>>,
     <<Position("FundA", 1, 100, 10)>>,
     <<Position("FundA", 1, 100, 10), Position("FundB", 2, 50, 0)>>,
     <<Position("FundA", 1, 100, 10), Position("FundA", DaysPerMonth + 1, 110, 15)>>,
     <<Position("FundA", 1, 100, 10), Position("FundB", 1, 0, 0),
       Position("FundB", DaysPerMonth + 1, 0, 0),
       Position("FundA", DaysPerMonth + 1, 110, 15)>>}

ReportInputs ==
    {<<c, parse_datetime_column_and_add_month(t)>> :
        c \in SUBSET PositionColumns, t \in ReportPositions}
    \ {<<{}, parse_datetime_column_and_add_month(t)>> : t \in ReportPositions \ {<<>>}}

NextReport ==
    \/ AssignFundPositions(ReportInputs)
    \/ CalculateMonthlyReturnsAt("new")
    \/ CalculateMonthlyReturns
    \/ GenerateReport
SpecReport == Init /\ [][NextReport]_vars

\* ------------------------- PerformanceAnalyzer: errors and their callers
\* what calculate_monthly_returns is to raise on the analyzer's holdings:
\* KeyError for a missing required column, RuntimeError for another failure
ExpectedKind ==
    IF perf_columns = NotAFrame THEN "RuntimeError"
    ELSE IF ~(RequiredColumns \subseteq perf_columns) THEN "KeyError"
    ELSE None

\* C14: calculate_monthly_returns called on a holdings table with no row
\* raises ValueError; it does not return a table and does not raise KeyError
\* or RuntimeError.
C14_EmptyInputRaisesValueError ==
    (perf_pc = "computed" /\ perf_columns # NotAFrame /\ perf_positions = <<>>)
        => returns_df.raised = "ValueError"

\* C15: calculate_monthly_returns raises KeyError when a required column is
\* missing and RuntimeError on another failure, and generate_report ends with
\* the same kind of error.
C15_ErrorKindKept ==
    /\ perf_pc = "computed" => returns_df.raised = ExpectedKind
    /\ (perf_pc = "reported" /\ ExpectedKind # None)
        => report_outcome.raised = ExpectedKind

\* C20: export_to_excel raises ValueError for a table with no row, and
\* KeyError when a requested column is missing, so generate_report on
\* holdings that yield no return row ends in an error.
C20_ExportErrorsReachCaller ==
    (perf_pc = "reported" /\ returns_df.raised = None) =>
        /\ top_funds.df = <<>> =>
            /\ export_outcome.raised = "ValueError"
            /\ report_outcome.raised # None
        /\ export_outcome.printed = "KeyError" => export_outcome.raised = "KeyError"

\* ------------------------------------------- calling an engine again
MaxRecalls == 1  \* calls of an operation after its first one

\* mutant of ReconcilePricesAgain: the frames of the call before are still
\* in all_rows (kept on the instance), the new ones are appended to them
ReconcilePricesAgain_Appending ==
    /\ rec_pc = "reconciled"
    /\ rec_recalls < MaxRecalls
    /\ LET again == reconcile_prices(fund_positions, equity_prices, bond_prices)
       IN  reconciler_df' = IF again.raised # None THEN again
                            ELSE Returned(reconciler_df.df \o again.df)
    /\ rec_recalls' = rec_recalls + 1
    /\ UNCHANGED <<fund_positions, equity_prices, bond_prices, rec_pc, perf_vars,
                   top_vars, report_vars, perf_recalls, pipe_vars>>

\* reconcile_prices called on a reconciler that has reconciled already
ReconcilePricesAgain ==
    /\ rec_pc = "reconciled"
    /\ rec_recalls < MaxRecalls
    /\ reconciler_df' = reconcile_prices(fund_positions, equity_prices, bond_prices)
    /\ rec_recalls' = rec_recalls + 1
    /\ UNCHANGED <<fund_positions, equity_prices, bond_prices, rec_pc, perf_vars,
                   top_vars, report_vars, perf_recalls, pipe_vars>>

\* calculate_monthly_returns called again, after get_top_performing_funds
CalculateMonthlyReturnsAgain ==
    /\ perf_pc = "ranked"
    /\ perf_recalls < MaxRecalls
    /\ returns_df' = calculate_monthly_returns(perf_positions, perf_columns)
    /\ monthly_agg' = IF returns_df'.raised = None
                      THEN _aggregate_monthly_data(perf_positions) ELSE <<>>
    /\ perf_recalls' = perf_recalls + 1
    /\ perf_pc' = "computed"
    /\ UNCHANGED <<perf_positions, rec_vars, top_vars, report_vars, rec_recalls, pipe_vars>>

\* get_top_performing_funds called on the table calculate_monthly_returns
\* returned; the sort orders equal rates the way it did before
GetTopOfReturns ==
    /\ perf_pc = "computed"
    /\ returns_df.raised = None
    /\ \E tie \in (IF sort_tie = None THEN TieRules ELSE {sort_tie}) :
        /\ sort_tie' = tie
        /\ top_funds' = Returned(get_top_performing_funds(returns_df.df, tie))
    /\ top_arg' = returns_df.df
    /\ perf_pc' = "ranked"
    /\ UNCHANGED <<perf_positions, monthly_agg, returns_df, top_pc, rec_vars,
                   report_vars, call_vars, pipe_vars>>

\* the reconciler's tables: holdings of both classes, of another class and
\* without a date, or without any bond; quotes that tie at one date
RerunHoldings ==
    {<<Holding(EQUITY, "AAPL", None, 2, 150000),
       Holding(BONDS, "ISIN123", None, 2, 101000)>>,
     <<Holding(BONDS, "AAPL", None, 1, 101000),
       Holding(EQUITY, "AAPL", None, 2, 150000),
       Holding(EQUITY, "AAPL", None, 1, 151000),
       Holding(OtherAssetType, "AAPL", None, 1, 152000),
       Holding(EQUITY, "AAPL", None, NaT, 153000)>>,
     <<Holding(EQUITY, "AAPL", None, 1, 150000)>>}
RerunEquityQuotes ==
    {<<>>,
     <<EquityQuote("AAPL", 2, 148000), EquityQuote("AAPL", 2, 149000)>>,
     <<EquityQuote("AAPL", 2, 148000), EquityQuote("AAPL", 1, 147000)>>}
RerunBondQuotes ==
    {<<BondQuote("ISIN123", 1, 148000)>>,
     <<BondQuote("AAPL", 1, 147000), BondQuote("AAPL", 1, 148000)>>}

RerunReconcilerInputs == RerunHoldings \X RerunEquityQuotes \X RerunBondQuotes

\* the analyzer's tables: the zero-start scenarios and two funds whose rates
\* tie in a month
RerunAnalyzerInputs ==
    ZeroStartInputs
    \cup {<<Position("FundB", 1, 100, 10), Position("FundA", 1, 100, 10),
            Position("FundB", DaysPerMonth + 1, 110, 15),
            Position("FundA", DaysPerMonth + 1, 110, 15)>>}

NextEngines ==
    \/ LoadAndPrepareData(RerunReconcilerInputs)
    \/ ReconcilePrices
    \/ ReconcilePricesAgain
    \/ AnalyzerLoadAndPrepareData(RerunAnalyzerInputs)
    \/ CalculateMonthlyReturns
    \/ GetTopOfReturns
    \/ CalculateMonthlyReturnsAgain
SpecEngines == Init /\ [][NextEngines]_vars

DerivedColumns ==
    {"PRICE_ref", "DATETIME_ref", "price_diff", "MV_end", "realized_pnl",
     "MV_start", "rate_of_return"}

HasDerivedColumn(df) == \E i \in DOMAIN df : DOMAIN df[i] \cap DerivedColumns # {}

\* C17: a reconcile_prices call leaves fund_positions, equity_prices and
\* bond_prices as they were, a calculate_monthly_returns call leaves the
\* analyzer's fund_positions as it was, a get_top_performing_funds call leaves
\* the returns table passed to it as it was, and no derived column is in any
\* of these tables afterwards.
C17_NoInputMutation ==
    [][/\ ((rec_pc = "loaded" /\ rec_pc' = "reconciled")
            \/ rec_recalls' # rec_recalls) =>
            /\ fund_positions' = fund_positions
            /\ equity_prices' = equity_prices
            /\ bond_prices' = bond_prices
            /\ ~HasDerivedColumn(fund_positions')
            /\ ~HasDerivedColumn(equity_prices')
            /\ ~HasDerivedColumn(bond_prices')
       /\ (perf_pc \in {"loaded", "ranked"} /\ perf_pc' = "computed") =>
            /\ perf_positions' = perf_positions
            /\ perf_columns' = perf_columns
            /\ ~HasDerivedColumn(perf_positions')
       /\ (perf_pc = "computed" /\ perf_pc' = "ranked") =>
            /\ returns_df' = returns_df
            /\ top_arg' = returns_df.df]_vars

\* both engines have produced their tables, with the derived columns, from
\* holdings that the reconciler's filters do not all pass
C17_Witness ==
    /\ Reported
    /\ HasDerivedColumn(Report)
    /\ Len(Report) < Len(fund_positions)
    /\ ~HasDerivedColumn(fund_positions)
    /\ perf_pc = "ranked"
    /\ HasDerivedColumn(Returns)
    /\ Len(Top) >= 1
    /\ top_arg = Returns
    /\ ~HasDerivedColumn(perf_positions)

\* ------------------------------------------------- FundDataPipeline.run
\* the calls of run, in the order of setup_database, load_data (the loader,
\* then each generator) and generate_reports (each generator)
RunSteps ==
    <<"run_sql_file", "load_fund_positions",
      "PriceReconciler.load_and_prepare_data",
      "PerformanceAnalyzer.load_and_prepare_data",
      "PriceReconciler.generate_report",
      "PerformanceAnalyzer.generate_report">>

StepIndex(step) == CHOOSE i \in DOMAIN RunSteps : RunSteps[i] = step

\* mutant of NextStepAfter: one loop over the generators, each one loaded and
\* reported before the next
NextStepAfter_PerGenerator(step) ==
    IF step = "PriceReconciler.load_and_prepare_data"
    THEN "PriceReconciler.generate_report"
    ELSE IF step = "PriceReconciler.generate_report"
    THEN "PerformanceAnalyzer.load_and_prepare_data"
    ELSE IF step = "PerformanceAnalyzer.load_and_prepare_data"
    THEN "PerformanceAnalyzer.generate_report"
    ELSE IF step = "PerformanceAnalyzer.generate_report" THEN "done"
    ELSE RunSteps[StepIndex(step) + 1]

\* the step run calls after a step that returned
NextStepAfter(step) ==
    IF StepIndex(step) = Len(RunSteps) THEN "done"
    ELSE RunSteps[StepIndex(step) + 1]

\* the SQL file of setup_database: present and valid, absent, or not valid
SqlFiles == {"ok", "missing", "bad_sql"}

\* run_sql_file catches FileNotFoundError and every other exception, prints
\* and returns
run_sql_file(sql_file) ==
    IF sql_file = "missing"
    THEN [file |-> sql_file, raised |-> None, executed |-> FALSE,
          printed |-> "FileNotFoundError"]
    ELSE IF sql_file = "bad_sql"
    THEN [file |-> sql_file, raised |-> None, executed |-> FALSE,
          printed |-> "Exception"]
    ELSE [file |-> sql_file, raised |-> None, executed |-> TRUE,
          printed |-> None]

\* the reference tables the generators load, created by the SQL file
BootstrapTables == {"equity_prices", "bond_prices"}
DbEquityQuotes == <<EquityQuote("AAPL", 1, 147000), EquityQuote("AAPL", 2, 148000)>>
DbBondQuotes == <<BondQuote("ISIN123", 1, 148000), BondQuote("ISIN999", 1, 99000)>>

\* a row of the fund_positions table with the columns of both generators
DbRow(fund, type, symbol, dt, price, mv, pl) ==
    [FUND_NAME |-> fund, FINANCIAL_TYPE |-> type, SYMBOL |-> symbol,
     ISIN |-> None, DATETIME |-> dt, PRICE |-> price,
     MARKET_VALUE |-> mv, REALISED_PL |-> pl]

\* the columns of the CSV files, and of the table made from them
CsvColumns ==
    {"FINANCIAL TYPE", "SYMBOL", "ISIN", "PRICE", "MARKET VALUE", "REALISED P/L"}
EnrichedColumns(csv_columns) == csv_columns \cup {"FUND NAME", "DATETIME"}

\* the rows of the CSV files of a folder: both asset classes over two months,
\* no bond, a single date, two funds with the same return, a holding of
\* another asset class, no equity, holdings whose ISIN is already populated
\* with another identifier, no row
CsvRows ==
    {<<DbRow("FundA", EQUITY, "AAPL", 1, 150000, 100, 10),
       DbRow("FundA", BONDS, "ISIN123", 1, 101000, 50, 0),
       DbRow("FundA", EQUITY, "AAPL", DaysPerMonth + 1, 150000, 160, 15)>>,
     <<DbRow("FundA", EQUITY, "AAPL", 1, 150000, 100, 10),
       DbRow("FundA", EQUITY, "AAPL", DaysPerMonth + 1, 150000, 110, 15)>>,
     <<DbRow("FundA", EQUITY, "AAPL", 1, 150000, 100, 10),
       DbRow("FundB", BONDS, "ISIN123", 1, 101000, 50, 0)>>,
     <<DbRow("FundA", EQUITY, "AAPL", 1, 150000, 100, 10),
       DbRow("FundB", BONDS, "ISIN123", 1, 101000, 100, 0),
       DbRow("FundA", EQUITY, "AAPL", DaysPerMonth + 1, 150000, 110, 15),
       DbRow("FundB", BONDS, "ISIN123", DaysPerMonth + 1, 101000, 110, 15)>>,
     <<DbRow("FundA", EQUITY, "AAPL", 2, 150000, 100, 10),
       DbRow("FundA", BONDS, "ISIN123", 2, 101000, 50, 0),
       DbRow("FundA", "Cash", "USD", 2, 1000, 30, 0)>>,
     <<DbRow("FundA", BONDS, "ISIN123", 1, 101000, 50, 0)>>,
     <<[DbRow("FundA", BONDS, "ISIN123", 1, 101000, 50, 0) EXCEPT !.ISIN = "ISIN999"],
       [DbRow("FundA", EQUITY, "AAPL", 1, 150000, 100, 10) EXCEPT !.ISIN = "ISIN123"],
       [DbRow("FundA", "Cash", "USD", 1, 1000, 30, 0) EXCEPT !.ISIN = "ISIN999"]>>,
     <<>>}

\* a folder: unreadable (read_csv raises), without CSV file, or with files
CsvFolders ==
    {[kind |-> "unreadable", rows |-> <<>>, columns |-> {}],
     [kind |-> "no_files", rows |-> <<>>, columns |-> {}]}
    \cup {[kind |-> "files", rows |-> r, columns |-> c] :
            r \in CsvRows, c \in {CsvColumns, CsvColumns \ {"MARKET VALUE"}}}

\* load_fund_positions: the table is created only when there are files
load_fund_positions(d, folder) ==
    IF folder.kind = "unreadable" THEN [raised |-> "Exception", db |-> d]
    ELSE IF folder.kind = "no_files" THEN [raised |-> None, db |-> d]
    ELSE [raised |-> None,
          db |-> [tables |-> d.tables \cup {"fund_positions"},
                  fund_positions |-> folder.rows,
                  columns |-> EnrichedColumns(folder.columns)]]

\* the columns generate_report asks export_to_excel for, and those of the
\* reconciled frame
RequestedColumns ==
    {"FUND NAME", "DATETIME", "FINANCIAL TYPE", "SYMBOL", "ISIN", "PRICE",
     "PRICE_ref", "price_diff"}
ReconciledColumns(columns) == columns \cup {"DATETIME_ref", "PRICE_ref", "price_diff"}

\* PriceReconciler.generate_report: what reconcile_prices raises is not
\* caught; what export_to_excel raises is caught inside it
PriceReconciler_generate_report(positions, eq_prices, bd_prices, columns, io_ok) ==
    LET r == reconcile_prices(positions, eq_prices, bd_prices)
    IN  IF r.raised # None
        THEN [raised |-> r.raised, reconciler_df |-> r, exported |-> FALSE,
              export |-> ExportFailed(None)]
        ELSE [raised |-> None, reconciler_df |-> r, exported |-> TRUE,
              export |-> export_to_excel(r.df, ReconciledColumns(columns),
                                         RequestedColumns, io_ok)]

\* run goes on to the next step, or ends with the exception of this one
StepReturns(step) ==
    /\ calls' = Append(calls, step)
    /\ pipe_pc' = NextStepAfter(step)
    /\ run_raised' = None

\* mutant of StepRaises: run catches the exception and goes on
StepRaises_Swallowed(step, exc) ==
    /\ calls' = Append(calls, step)
    /\ pipe_pc' = NextStepAfter(step)
    /\ run_raised' = None

StepRaises(step, exc) ==
    /\ calls' = Append(calls, step)
    /\ pipe_pc' = "raised"
    /\ run_raised' = exc

\* ---------------------------------------- FundDataPipeline.run: actions
\* setup_database: run_sql_file on the master reference SQL file
SetupDatabase ==
    /\ pipe_pc = "run_sql_file"
    /\ \E sql_file \in SqlFiles :
        LET out == run_sql_file(sql_file)
        IN  /\ sql_outcome' = out
            /\ db' = IF out.executed
                     THEN [db EXCEPT !.tables = @ \cup BootstrapTables]
                     ELSE db
            /\ IF out.raised = None
               THEN StepReturns("run_sql_file")
               ELSE StepRaises("run_sql_file", out.raised)
    /\ UNCHANGED <<rec_vars, perf_vars, top_vars, report_vars, call_vars>>

\* load_data, first call: the loader reads the CSV folder into the database
LoadFundPositions ==
    /\ pipe_pc = "load_fund_positions"
    /\ \E folder \in CsvFolders :
        LET out == load_fund_positions(db, folder)
        IN  /\ db' = out.db
            /\ IF out.raised = None
               THEN StepReturns("load_fund_positions")
               ELSE StepRaises("load_fund_positions", out.raised)
    /\ UNCHANGED <<sql_outcome, rec_vars, perf_vars, top_vars, report_vars,
                   call_vars>>

\* load_data, PriceReconciler.load_and_prepare_data: the tables are loaded in
\* the order fund_positions, equity_prices, bond_prices; a table that does
\* not exist makes load_table raise, which leaves as a RuntimeError
PipelineLoadReconciler ==
    /\ pipe_pc = "PriceReconciler.load_and_prepare_data"
    /\ LET has_fp == "fund_positions" \in db.tables
           has_eq == has_fp /\ "equity_prices" \in db.tables
           has_bd == has_eq /\ "bond_prices" \in db.tables
       IN  /\ fund_positions' =
                IF has_bd THEN FixBondIsin(db.fund_positions)
                ELSE IF has_fp THEN db.fund_positions ELSE fund_positions
           /\ equity_prices' = IF has_eq THEN DbEquityQuotes ELSE equity_prices
           /\ bond_prices' = IF has_bd THEN DbBondQuotes ELSE bond_prices
           /\ rec_pc' = IF has_bd THEN "loaded" ELSE rec_pc
           /\ IF has_bd
              THEN StepReturns("PriceReconciler.load_and_prepare_data")
              ELSE StepRaises("PriceReconciler.load_and_prepare_data",
                              "RuntimeError")
    /\ UNCHANGED <<reconciler_df, db, sql_outcome, perf_vars, top_vars,
                   report_vars, call_vars>>

\* load_data, PerformanceAnalyzer.load_and_prepare_data
PipelineLoadAnalyzer ==
    /\ pipe_pc = "PerformanceAnalyzer.load_and_prepare_data"
    /\ IF "fund_positions" \in db.tables
       THEN /\ perf_positions' =
                    parse_datetime_column_and_add_month(db.fund_positions)
            /\ perf_columns' = db.columns \cup {"month"}
            /\ perf_pc' = "loaded"
            /\ StepReturns("PerformanceAnalyzer.load_and_prepare_data")
       ELSE /\ UNCHANGED <<perf_positions, perf_columns, perf_pc>>
            /\ StepRaises("PerformanceAnalyzer.load_and_prepare_data",
                          "RuntimeError")
    /\ UNCHANGED <<monthly_agg, returns_df, db, sql_outcome, rec_vars, top_vars,
                   export_outcome, report_outcome, call_vars>>

\* generate_reports, PriceReconciler.generate_report
PipelineReportReconciler ==
    /\ pipe_pc = "PriceReconciler.generate_report"
    /\ \E io_ok \in BOOLEAN :
        LET r == PriceReconciler_generate_report(
                     fund_positions, equity_prices, bond_prices, db.columns, io_ok)
        IN  /\ reconciler_df' = r.reconciler_df
            /\ export_outcome' = IF r.exported THEN r.export ELSE export_outcome
            /\ IF r.raised = None
               THEN StepReturns("PriceReconciler.generate_report")
               ELSE StepRaises("PriceReconciler.generate_report", r.raised)
    /\ rec_pc' = "reconciled"
    /\ UNCHANGED <<fund_positions, equity_prices, bond_prices, db, sql_outcome,
                   perf_vars, top_vars, perf_columns, report_outcome, call_vars>>

\* generate_reports, PerformanceAnalyzer.generate_report
PipelineReportAnalyzer ==
    /\ pipe_pc = "PerformanceAnalyzer.generate_report"
    /\ \E tie \in TieRules, io_ok \in BOOLEAN :
        LET r == generate_report(perf_positions, perf_columns, tie, io_ok)
        IN  /\ returns_df' = r.returns_df
            /\ report_outcome' = [raised |-> r.raised]
            /\ IF r.exported
               THEN /\ top_arg' = r.returns_df.df
                    /\ top_funds' = Returned(r.top_funds)
                    /\ sort_tie' = tie
                    /\ export_outcome' = r.export
               ELSE UNCHANGED <<top_arg, top_funds, sort_tie, export_outcome>>
            /\ IF r.raised = None
               THEN StepReturns("PerformanceAnalyzer.generate_report")
               ELSE StepRaises("PerformanceAnalyzer.generate_report", r.raised)
    /\ perf_pc' = "reported"
    /\ UNCHANGED <<perf_positions, perf_columns, monthly_agg, top_pc, db,
                   sql_outcome, rec_vars, call_vars>>

NextPipeline ==
    \/ SetupDatabase
    \/ LoadFundPositions
    \/ PipelineLoadReconciler
    \/ PipelineLoadAnalyzer
    \/ PipelineReportReconciler
    \/ PipelineReportAnalyzer

SpecPipeline == Init /\ [][NextPipeline]_vars

\* ------------------------------------------------ claims on the pipeline
RunEnded == pipe_pc \in {"done", "raised"}

IsPrefix(s, t) == Len(s) <= Len(t) /\ \A i \in 1..Len(s) : s[i] = t[i]

Called(step) == \E i \in 1..Len(calls) : calls[i] = step

\* C18 as stated: every execution of run calls the SQL bootstrap, the
\* fund-positions load, load_and_prepare_data on each generator and
\* generate_report on each generator, each exactly once and in this order
C18_EachStepExactlyOnce == RunEnded => calls = RunSteps

\* C18: at every moment the calls made so far are the first calls of RunSteps
\* in order (so each step is called at most once, the SQL bootstrap first, and
\* no generate_report before load_and_prepare_data has returned on every
\* generator); a run that ends without an exception has made every call
\* exactly once; a run that ends with an exception made its last call at the
\* step that raised
C18_StepOrder ==
    /\ IsPrefix(calls, RunSteps)
    /\ pipe_pc = "done" => calls = RunSteps /\ run_raised = None
    /\ pipe_pc = "raised" => calls # <<>> /\ run_raised # None
    /\ pipe_pc \notin {"done", "raised"} =>
            /\ Len(calls) < Len(RunSteps)
            /\ pipe_pc = RunSteps[Len(calls) + 1]

\* a run that made all six calls and ended without an exception
C18_Witness ==
    /\ pipe_pc = "done"
    /\ Len(calls) = 6
    /\ calls[5] = "PriceReconciler.generate_report"
    /\ calls[6] = "PerformanceAnalyzer.generate_report"
    /\ reconciler_df.raised = None
    /\ report_outcome.raised = None

\* C19 as stated: run_sql_file raises FileNotFoundError when the SQL file does
\* not exist and raises when executing it fails, and after a failed bootstrap
\* run does not go on to load data
C19_BootstrapFailureStopsRun ==
    Called("run_sql_file") =>
        /\ sql_outcome.file = "missing" => sql_outcome.raised = "FileNotFoundError"
        /\ sql_outcome.file = "bad_sql" => sql_outcome.raised # None
        /\ ~sql_outcome.executed => ~Called("load_fund_positions")

\* ------------------------------------- claims on the bond identifier fix-up
\* PriceReconciler.load_and_prepare_data has returned in this run
ReconcilerLoaded ==
    /\ Called("PriceReconciler.load_and_prepare_data")
    /\ rec_pc \in {"loaded", "reconciled"}

\* C21: once load_and_prepare_data has returned, the holdings are those of the
\* fund_positions table row by row, except that a bond holding's ISIN is its
\* SYMBOL whatever the table held; a holding of any other asset class is the
\* table's row unchanged; and in the report a bond row's reference price is
\* that of a bond quote whose ISIN is the row's SYMBOL (or it is null)
C21_BondIsinIsSymbol ==
    ReconcilerLoaded =>
        /\ Len(fund_positions) = Len(db.fund_positions)
        /\ \A i \in DOMAIN fund_positions :
            IF db.fund_positions[i].FINANCIAL_TYPE = BONDS
            THEN /\ fund_positions[i].ISIN = db.fund_positions[i].SYMBOL
                 /\ fund_positions[i] =
                        [db.fund_positions[i] EXCEPT !.ISIN = db.fund_positions[i].SYMBOL]
            ELSE fund_positions[i] = db.fund_positions[i]
        /\ (rec_pc = "reconciled" /\ reconciler_df.raised = None) =>
            \A n \in DOMAIN reconciler_df.df :
                LET row == reconciler_df.df[n]
                IN  row.FINANCIAL_TYPE = BONDS =>
                        /\ row.ISIN = row.SYMBOL
                        /\ \/ row.PRICE_ref = NaN
                           \/ \E q \in Range(bond_prices) :
                                /\ q.ISIN = row.SYMBOL
                                /\ q.PRICE = row.PRICE_ref

\* the table held a bond whose ISIN named another quoted bond and an equity
\* and a holding of another class with a populated ISIN; the bond was matched
\* on its SYMBOL and the others kept their ISIN
C21_Witness ==
    /\ ReconcilerLoaded
    /\ rec_pc = "reconciled"
    /\ reconciler_df.raised = None
    /\ \E i, j, k \in DOMAIN fund_positions :
        /\ db.fund_positions[i].FINANCIAL_TYPE = BONDS
        /\ db.fund_positions[i].ISIN = "ISIN999"
        /\ fund_positions[i].ISIN = "ISIN123"
        /\ db.fund_positions[j].FINANCIAL_TYPE = EQUITY
        /\ fund_positions[j].ISIN = "ISIN123"
        /\ fund_positions[j].SYMBOL = "AAPL"
        /\ fund_positions[k].FINANCIAL_TYPE = "Cash"
        /\ fund_positions[k].ISIN = "ISIN999"
    /\ \E n \in DOMAIN reconciler_df.df :
        /\ reconciler_df.df[n].FINANCIAL_TYPE = BONDS
        /\ reconciler_df.df[n].PRICE_ref = 148000

\* ------------------------------------------- claims on the as-of tie-break
\* the quotes eligible for h that carry the latest eligible date
LatestEligible(h) ==
    LET Q == QuotesOf(h.FINANCIAL_TYPE)
        E == Eligible(h)
    IN  {i \in E : \A j \in E : Q[j].DATETIME <= Q[i].DATETIME}

\* C22: when several quotes share a row's key and the latest date at or before
\* the row's date, the row's reference price is that of the one that comes
\* first in the quote table, whatever the prices are
C22_TieFirstInInput ==
    Reported =>
        \A n \in DOMAIN Report :
            LET row == Report[n]
                Q == QuotesOf(row.FINANCIAL_TYPE)
                L == LatestEligible(row)
            IN  L # {} =>
                    LET first == CHOOSE i \in L : \A j \in L : i <= j
                    IN  /\ row.PRICE_ref = Q[first].PRICE
                        /\ row.DATETIME_ref = Q[first].DATETIME

\* the equity row has two quotes at its latest date of which the first in the
\* table is the dearer, the bond row two of which the first is the cheaper;
\* each row carries the price of the first
C22_Witness ==
    /\ Reported
    /\ \E n, m \in DOMAIN Report :
        /\ Report[n].FINANCIAL_TYPE = EQUITY
        /\ Report[m].FINANCIAL_TYPE = BONDS
        /\ \E i, j \in LatestEligible(Report[n]) :
            /\ i < j
            /\ equity_prices[i].PRICE > equity_prices[j].PRICE
            /\ Report[n].PRICE_ref = equity_prices[i].PRICE
        /\ \E i, j \in LatestEligible(Report[m]) :
            /\ i < j
            /\ bond_prices[i].PRICE < bond_prices[j].PRICE
            /\ Report[m].PRICE_ref = bond_prices[i].PRICE

\* --------------------------------- claims on the top-performer tie-break
\* the rows of month m of the returns table that share its highest defined
\* rate; every row of the month when no rate of the month is defined
TopTied(m) ==
    LET R == MonthRows(top_arg, m)
        D == {k \in R : top_arg[k].rate_of_return # NaN}
    IN  IF D = {} THEN R
        ELSE {k \in D : \A j \in D :
                top_arg[k].rate_of_return >= top_arg[j].rate_of_return}

FirstOf(S) == CHOOSE i \in S : \A j \in S : i <= j

\* C23 as stated: when several funds share the highest rate of a month, the
\* row kept is the one that comes first in the returns table
C23_TieFirstInInput ==
    TopDone =>
        \A m \in TableMonths(top_arg) : \A n \in MonthRows(Top, m) :
            Top[n] = top_arg[FirstOf(TopTied(m))]

\* C23 amended: when several funds share the highest rate of a month, the row
\* kept is one of their rows; it is the first of them in the returns table
\* when the sort leaves equal rates in input order, and when the rates of the
\* month are all undefined
C23_TieKeepsOneOfTied ==
    TopDone =>
        \A m \in TableMonths(top_arg) : \A n \in MonthRows(Top, m) :
            /\ \E k \in TopTied(m) : Top[n] = top_arg[k]
            /\ sort_tie = "input_order" => Top[n] = top_arg[FirstOf(TopTied(m))]
            /\ (\A k \in MonthRows(top_arg, m) : top_arg[k].rate_of_return = NaN)
                    => Top[n] = top_arg[FirstOf(TopTied(m))]

\* FundA then FundB share the highest rate of a month, the sort left equal
\* rates reversed, and FundB's row is the one kept
C23_Witness ==
    /\ TopDone
    /\ sort_tie = "reverse_order"
    /\ \E i, j \in DOMAIN top_arg :
        /\ i < j
        /\ top_arg[i].month = top_arg[j].month
        /\ top_arg[i].FUND_NAME = "FundA"
        /\ top_arg[j].FUND_NAME = "FundB"
        /\ top_arg[i].rate_of_return = 2500
        /\ top_arg[j].rate_of_return = 2500
        /\ TopTied(top_arg[i].month) = {i, j}
        /\ \A n \in MonthRows(Top, top_arg[i].month) : Top[n] = top_arg[j]

ClassHoldings(type) ==
    {i \in DOMAIN fund_positions : fund_positions[i].FINANCIAL_TYPE = type}

\* C25 as stated: when the holdings have no equity holding, or no bond
\* holding, or no holding at all, reconcile_prices returns, and the report
\* has a row for each dated holding of the asset class that is present
C25_EmptyClassReturns ==
    (rec_pc = "reconciled"
        /\ (ClassHoldings(EQUITY) = {} \/ ClassHoldings(BONDS) = {})) =>
            /\ reconciler_df.raised = None
            /\ \A i \in ClassHoldings(EQUITY) \cup ClassHoldings(BONDS) :
                fund_positions[i].DATETIME # NaT =>
                    \E n \in DOMAIN reconciler_df.df :
                        HoldingOf(reconciler_df.df[n]) = fund_positions[i]

\* ------------------------------------- claims on failure propagation in run
LastCall == calls[Len(calls)]

\* run ended at this step with this exception
RunRaisedAt(step, exc) ==
    /\ pipe_pc = "raised"
    /\ run_raised = exc
    /\ LastCall = step

\* C26: a generator's load_and_prepare_data that raised (it was called and the
\* generator is not loaded) ended run there with its RuntimeError, before any
\* generate_report; a run that ended in any step up to the last
\* load_and_prepare_data holds the exception and has called no
\* generate_report; a reconcile_prices that raised inside the reconciler's
\* generate_report ended run there with that exception, before the analyzer's
\* generate_report; an analyzer's generate_report that raised ended run with
\* its exception; and run holds an exception only when it has ended
C26_FailureStopsRun ==
    /\ (Called("PriceReconciler.load_and_prepare_data") /\ rec_pc = "new") =>
            /\ RunRaisedAt("PriceReconciler.load_and_prepare_data", "RuntimeError")
            /\ ~Called("PerformanceAnalyzer.load_and_prepare_data")
            /\ ~Called("PriceReconciler.generate_report")
            /\ ~Called("PerformanceAnalyzer.generate_report")
    /\ (pipe_pc = "raised"
            /\ StepIndex(LastCall) <= StepIndex("PerformanceAnalyzer.load_and_prepare_data")) =>
            /\ run_raised # None
            /\ ~Called("PriceReconciler.generate_report")
            /\ ~Called("PerformanceAnalyzer.generate_report")
    /\ reconciler_df.raised # None =>
            /\ RunRaisedAt("PriceReconciler.generate_report", reconciler_df.raised)
            /\ ~Called("PerformanceAnalyzer.generate_report")
    /\ report_outcome.raised # None =>
            RunRaisedAt("PerformanceAnalyzer.generate_report", report_outcome.raised)
    /\ run_raised # None => pipe_pc = "raised"

\* both generators were loaded, reconcile_prices raised ValueError inside the
\* reconciler's generate_report, and run ended with it after five calls
C26_Witness ==
    /\ rec_pc = "reconciled"
    /\ perf_pc = "loaded"
    /\ reconciler_df.raised = "ValueError"
    /\ RunRaisedAt("PriceReconciler.generate_report", "ValueError")
    /\ Len(calls) = 5
    /\ ~Called("PerformanceAnalyzer.generate_report")

====
